---- MODULE Spec2Model ----
(***************************************************************************)
(* TargetBuyPBR.py: the daily option pipeline.                             *)
(*   Pricing Engine   bs_call_price, bs_put_price, implied_vol_put         *)
(*   Day Processor    process_one_day (spot resolution, contract           *)
(*                    selection, pricing, record emission)                 *)
(*   Run Driver       fetch_and_process_day, main                          *)
(*                                                                         *)
(* Units.  Money (spot, strike, closing and theoretical prices) is in      *)
(* 1/100 yen, volatilities are in 1/10000, T is in days (1/365 year),      *)
(* r is in 1/1000000.  Python floats are modelled by exact integers in     *)
(* these units; NaN, None, unparsable text and a propagating exception     *)
(* are values of their own.                                                *)
(***************************************************************************)
EXTENDS Integers, Sequences, FiniteSets, TLC

\* ------------------------------------------------------------------ values

Num(x) == [k |-> "num", v |-> x]
\* float('nan'): what read_csv gives for an empty cell
NaN    == [k |-> "nan", v |-> 0]
None   == [k |-> "none", v |-> 0]
\* a cell holding text float() cannot parse (such as "-")
Str    == [k |-> "str", v |-> 0]
\* an exception leaving the call
Raise  == [k |-> "raise", v |-> 0]

IsNum(x) == x.k = "num"
\* Python's x <= 0 and x > 0 on a float: every comparison with NaN is False
Le0(x) == IsNum(x) /\ x.v <= 0
Gt0(x) == IsNum(x) /\ x.v > 0

\* float(x): text that does not parse raises ValueError, None raises TypeError
FloatOf(x) == IF x.k \in {"str", "none", "raise"} THEN Raise ELSE x

Abs(a) == IF a < 0 THEN -a ELSE a
Sign(a) == IF a < 0 THEN -1 ELSE IF a > 0 THEN 1 ELSE 0
\* division rounding toward zero, for either sign of a and b # 0
TDiv(a, b) == Sign(a) * Sign(b) * (Abs(a) \div Abs(b))

\* ---------------------------------------------------------- Pricing Engine

RECURSIVE ISqrtIn(_, _, _)
ISqrtIn(n, lo, hi) ==
    IF hi - lo <= 1 THEN lo
    ELSE LET mid == (lo + hi) \div 2
         IN  IF mid * mid <= n THEN ISqrtIn(n, mid, hi) ELSE ISqrtIn(n, lo, mid)

\* sqrt(T) in 1/100000, T in days: sqrt(T/365) = sqrt(T * 27397260) / 100000
SqrtT5(T) == ISqrtIn(T * 27397260, 0, 46340)

\* log(S/K) in 1/10000, by the series 2*atanh(z), z = (S-K)/(S+K) in 1/10000
Z2(z) == TDiv(z * z, 10000)
Z3(z) == TDiv(Z2(z) * z, 10000)
Z5(z) == TDiv(Z3(z) * Z2(z), 10000)
Z7(z) == TDiv(Z5(z) * Z2(z), 10000)
Atanh2(z) == 2 * (z + TDiv(Z3(z), 3) + TDiv(Z5(z), 5) + TDiv(Z7(z), 7))
Ln4(S, K) == Atanh2(TDiv((S - K) * 10000, S + K))

\* norm.cdf at 0.0, 0.1, ..., 4.0, in 1/10000
CdfTable ==
    << 5000, 5398, 5793, 6179, 6554, 6915, 7257, 7580, 7881, 8159,
       8413, 8643, 8849, 9032, 9192, 9332, 9452, 9554, 9641, 9713,
       9772, 9821, 9861, 9893, 9918, 9938, 9953, 9965, 9974, 9981,
       9987, 9990, 9993, 9995, 9997, 9998, 9998, 9999, 9999, 10000, 10000 >>

\* norm.cdf(a) in 1/10000 for a >= 0 in 1/1000: the table, read linearly
CdfUpper(a) ==
    IF a >= 4000 THEN 10000
    ELSE CdfTable[(a \div 100) + 1]
           + ((CdfTable[(a \div 100) + 2] - CdfTable[(a \div 100) + 1]) * (a % 100)) \div 100

norm_cdf(d) == IF d >= 0 THEN CdfUpper(d) ELSE 10000 - CdfUpper(-d)

\* exp(-r*T) in 1/10000, by 1 - x + x*x/2
ExpNeg(x) == 10000 - x + TDiv(x * x, 20000)
Discount(r, T) == ExpNeg(TDiv(TDiv(r * T, 365), 100))

\* n / v in 1/1000, clamped to +-8 (norm.cdf is 0 or 1 beyond)
Ratio(n, v) ==
    IF Abs(n) >= 8 * Abs(v) THEN Sign(n) * Sign(v) * 8000
    ELSE TDiv(n * 1000, v)

\* d1 and d2 in 1/1000, for S, K > 0, T > 0, sigma # 0
D1(S, K, T, r, sigma) ==
    Ratio(Ln4(S, K) * 100 + TDiv((r + TDiv(sigma * sigma, 200)) * T, 365),
          TDiv(sigma * SqrtT5(T), 1000))

D2(S, K, T, r, sigma) ==
    D1(S, K, T, r, sigma) - TDiv(sigma * SqrtT5(T), 1000000)

AllNum(S, K, T, r, sigma) ==
    IsNum(S) /\ IsNum(K) /\ IsNum(T) /\ IsNum(r) /\ IsNum(sigma)

\* The arithmetic of lines 61-63 and 68-70 raises where Python's does:
\* S/K with K = 0, log of a non-positive ratio, sqrt of a negative T, and a
\* division by sigma*sqrt(T) = 0.
FormulaRaises(S, K, T, sigma) ==
    K.v = 0 \/ S.v * K.v <= 0 \/ T.v <= 0 \/ sigma.v = 0

\* lines 61-63, on a NaN argument NaN
CallFormula(S, K, T, r, sigma) ==
    IF ~AllNum(S, K, T, r, sigma) THEN NaN
    ELSE IF FormulaRaises(S, K, T, sigma) THEN Raise
    ELSE Num(TDiv(  S.v * norm_cdf(D1(S.v, K.v, T.v, r.v, sigma.v))
                  - TDiv(K.v * Discount(r.v, T.v), 10000)
                      * norm_cdf(D2(S.v, K.v, T.v, r.v, sigma.v)), 10000))

\* lines 68-70
PutFormula(S, K, T, r, sigma) ==
    IF ~AllNum(S, K, T, r, sigma) THEN NaN
    ELSE IF FormulaRaises(S, K, T, sigma) THEN Raise
    ELSE Num(TDiv(  TDiv(K.v * Discount(r.v, T.v), 10000)
                      * norm_cdf(-D2(S.v, K.v, T.v, r.v, sigma.v))
                  - S.v * norm_cdf(-D1(S.v, K.v, T.v, r.v, sigma.v)), 10000))

bs_call_price(S, K, T, r, sigma) ==
    IF Le0(S) \/ Le0(K) \/ Le0(T) \/ Le0(sigma) THEN None
    ELSE CallFormula(S, K, T, r, sigma)

\* bs_put_price with the check of sigma left out of line 66
bs_put_price_NoSigmaGuard(S, K, T, r, sigma) ==
    IF Le0(S) \/ Le0(K) \/ Le0(T) THEN None
    ELSE PutFormula(S, K, T, r, sigma)

bs_put_price(S, K, T, r, sigma) ==
    IF Le0(S) \/ Le0(K) \/ Le0(T) \/ Le0(sigma) THEN None
    ELSE PutFormula(S, K, T, r, sigma)

\* the bracket of brentq, in 1/10000: sigma in [0.0001, 3.0]
SigmaLo == 1
SigmaHi == 30000

\* price - market_price: None - float is a TypeError
Minus(price, market_price) ==
    IF price.k \in {"none", "raise"} THEN Raise
    ELSE IF price.k = "nan" \/ ~IsNum(market_price) THEN NaN
    ELSE Num(price.v - market_price.v)

\* the lambda of line 75
PutResidual(S, K, T, r, market_price, sigma) ==
    Minus(bs_put_price(S, K, T, r, Num(sigma)), market_price)

RECURSIVE Bisect(_, _, _, _, _, _, _, _)
\* the half of [lo, hi] that keeps the sign change, fm being the residual at mid
BisectHalf(S, K, T, r, market_price, lo, hi, slo, mid, fm) ==
    IF fm = 0 THEN mid
    ELSE IF Sign(fm) = slo
         THEN Bisect(S, K, T, r, market_price, mid, hi, slo)
         ELSE Bisect(S, K, T, r, market_price, lo, mid, slo)

Bisect(S, K, T, r, market_price, lo, hi, slo) ==
    IF hi - lo <= 1 THEN hi
    ELSE BisectHalf(S, K, T, r, market_price, lo, hi, slo, (lo + hi) \div 2,
                    PutResidual(S, K, T, r, market_price, (lo + hi) \div 2).v)

\* brentq given the residuals fa, fb at the ends of the bracket: an exception
\* of the function leaves it, a NaN value or end values of one sign are a
\* ValueError, otherwise the root of the bracket
BrentqEnds(S, K, T, r, market_price, fa, fb) ==
    IF fa = Raise \/ fb = Raise THEN Raise
    ELSE IF fa = NaN \/ fb = NaN THEN Raise
    ELSE IF fa.v * fb.v > 0 THEN Raise
    ELSE IF fa.v = 0 THEN Num(SigmaLo)
    ELSE IF fb.v = 0 THEN Num(SigmaHi)
    ELSE Num(Bisect(S, K, T, r, market_price, SigmaLo, SigmaHi, Sign(fa.v)))

\* scipy.optimize.brentq on the residual over [0.0001, 3.0]
brentq(S, K, T, r, market_price) ==
    BrentqEnds(S, K, T, r, market_price,
               PutResidual(S, K, T, r, market_price, SigmaLo),
               PutResidual(S, K, T, r, market_price, SigmaHi))

\* try: return ...  except Exception: return None
ExceptNone(x) == IF x = Raise THEN None ELSE x

implied_vol_put(S, K, T, r, market_price) ==
    ExceptNone(brentq(S, K, T, r, market_price))

\* ------------------------------------------------------------ Day Processor

\* The watchlist, in the source's order.  The model runs the first NCodes of
\* it: the loop treats every code alike.
AllCodes ==
    << 7203, 9432, 9984, 6758, 8306, 8035, 6861, 4502,
       4063, 6954, 7974, 6098, 2413, 2801, 2914, 3382,
       5108, 5401, 5713, 5802, 6301, 6501, 6503, 6594,
       6702, 6723, 6752, 6762 >>

NCodes == 2

TARGET_CODES == SubSeq(AllCodes, 1, NCodes)

\* A date string "%Y-%m-%d" / "%Y%m%d" is the number yyyymmdd; a datetime is
\* [y, m, d].
strptime(s) == [y |-> s \div 10000, m |-> (s \div 100) % 100, d |-> s % 100]
strftime_ymd(t) == t.y * 10000 + t.m * 100 + t.d
\* strftime("%Y%m"): the text of six digits
strftime_ym(t) == [digits |-> t.y * 100 + t.m, tail |-> ""]

IsLeap(y) == (y % 4 = 0 /\ y % 100 # 0) \/ y % 400 = 0
DaysInMonth(y, m) ==
    IF m = 2 THEN (IF IsLeap(y) THEN 29 ELSE 28)
    ELSE IF m \in {4, 6, 9, 11} THEN 30 ELSE 31

\* a month added without the year moving after December
DateOffsetMonth_NoRollover(t) == [y |-> t.y, m |-> t.m + 1, d |-> t.d]

\* trade_date + pd.DateOffset(months=1): the month moves by one, the year
\* with it after December, and the day is cut to the new month's last day
DateOffsetMonth(t) ==
    LET y2 == IF t.m = 12 THEN t.y + 1 ELSE t.y
        m2 == IF t.m = 12 THEN 1 ELSE t.m + 1
        dm == DaysInMonth(y2, m2)
    IN  [y |-> y2, m |-> m2, d |-> IF t.d > dm THEN dm ELSE t.d]

next_month_of(trade_date) == strftime_ym(DateOffsetMonth(trade_date))

\* astype(str).str.strip() of an expiry cell: an integer cell is its digits, a
\* cell of a float column is its digits and ".0", an empty cell is "nan"
Flt(x) == [k |-> "flt", v |-> x]
ExpiryText(c) ==
    IF c.k = "num" THEN [digits |-> c.v, tail |-> ""]
    ELSE IF c.k = "flt" THEN [digits |-> c.v, tail |-> ".0"]
    ELSE IF c.k = "nan" THEN [digits |-> 0, tail |-> "nan"]
    ELSE [digits |-> 0, tail |-> "text"]

\* pd.to_numeric(errors="coerce")
to_numeric(c) == IF IsNum(c) THEN c ELSE NaN

\* lines 126-134: the rows of the target expiry with a numeric strike
FilterNextMonth(df_code, next_month) ==
    LET atExpiry(row) == ExpiryText(row.expiry) = next_month
        df_m == SelectSeq(df_code, atExpiry)
        numeric(row) == to_numeric(row.strike) # NaN
    IN  SelectSeq(df_m, numeric)

\* |strike - spot * pct/100| times 100, for a numeric spot
Distance(strike, spot, pct) == Abs(strike * 100 - spot * pct)

\* Series.argmin of the distances to spot*pct/100: the first position of the
\* least one.  Against a NaN target every distance is NaN and argmin has no
\* value to return: pandas before 3.0 returns -1 (with a FutureWarning), from
\* 3.0 on it raises ValueError.  all_na is that outcome: "last" or "raise".
argmin(df_m, spot, pct, all_na) ==
    IF ~IsNum(spot) THEN (IF all_na = "raise" THEN 0 ELSE -1)
    ELSE CHOOSE i \in 1..Len(df_m) :
            /\ \A j \in 1..Len(df_m) :
                   Distance(df_m[i].strike.v, spot.v, pct)
                     <= Distance(df_m[j].strike.v, spot.v, pct)
            /\ \A j \in 1..(i - 1) :
                   Distance(df_m[j].strike.v, spot.v, pct)
                     > Distance(df_m[i].strike.v, spot.v, pct)

\* df_m.iloc[i] for argmin's result: -1 is the last row
iloc(df_m, i) == IF i = -1 THEN df_m[Len(df_m)] ELSE df_m[i]

\* abs(strike - spot) / spot > 0.20, which is False for a NaN spot
OutOfBand(strike, spot) ==
    IsNum(spot) /\ Abs(strike.v - spot.v) * 100 > 20 * spot.v

\* lines 110-114: float() of the first row's underlying close, None on error
ChainSpot(df_code) == ExceptNone(FloatOf(df_code[1].spot))

\* line 116 and line 119
SpotUnusable(spot) == spot = None \/ Le0(spot)

\* lines 150-158, s being float(raw_sigma)
UsableSigma(s) ==
    IF s = Raise THEN None
    ELSE IF Le0(s) THEN None
    ELSE s

SigmaCall(call_row) == UsableSigma(FloatOf(call_row.call_iv))

\* lines 162-163
T_days == 30
R_rate == 0

\* lines 168-172, c and p being the two prices: both stay None when the first
\* call raises, the call price is kept when only the second does
TryBoth(c, p) ==
    IF c = Raise THEN [call |-> None, put |-> None]
    ELSE IF p = Raise THEN [call |-> c, put |-> None]
    ELSE [call |-> c, put |-> p]

\* theoretical prices set to 0 when there is no call IV
TheoPrices_ZeroDefault(spot, call_strike, put_strike, sigma_call) ==
    IF sigma_call = None THEN [call |-> Num(0), put |-> Num(0)]
    ELSE TryBoth(bs_call_price(spot, call_strike, Num(T_days), Num(R_rate), sigma_call),
                 bs_put_price(spot, put_strike, Num(T_days), Num(R_rate), sigma_call))

\* lines 165-172
TheoPrices(spot, call_strike, put_strike, sigma_call) ==
    IF sigma_call = None THEN [call |-> None, put |-> None]
    ELSE TryBoth(bs_call_price(spot, call_strike, Num(T_days), Num(R_rate), sigma_call),
                 bs_put_price(spot, put_strike, Num(T_days), Num(R_rate), sigma_call))

\* lines 174-181
PutIv(spot, put_strike, put_price) ==
    IF put_price = None \/ FloatOf(put_price) = Raise THEN None
    ELSE IF Gt0(FloatOf(put_price))
         THEN implied_vol_put(spot, put_strike, Num(T_days), Num(R_rate), FloatOf(put_price))
         ELSE None

\* what one pass of the loop body gives: "skip" (continue), "raise" (the
\* exception leaves process_one_day) or "rec"; asked says whether
\* get_stock_price_from_yf was called
Skip(asked) == [out |-> "skip", asked |-> asked, rec |-> << >>]
Raised(asked) == [out |-> "raise", asked |-> asked, rec |-> << >>]

\* lines 183-188
Record(trade_date_str, code, spot, next_month, call_row, put_row, sigma_call, theo) ==
    [date        |-> trade_date_str,
     code        |-> code,
     spot        |-> spot,
     next_month  |-> next_month.digits,
     call_strike |-> call_row.strike,
     call_price  |-> call_row.call_close,
     call_theo   |-> theo.call,
     sigma_call  |-> sigma_call,
     put_strike  |-> put_row.strike,
     put_price   |-> put_row.put_close,
     put_theo    |-> theo.put,
     put_iv      |-> PutIv(spot, put_row.strike, put_row.put_close),
     asset_iv    |-> call_row.asset_iv]

\* lines 150-188, sigma_call being known
Priced(trade_date_str, code, spot, next_month, call_row, put_row, sigma_call, asked) ==
    [out |-> "rec", asked |-> asked, rec |->
       Record(trade_date_str, code, spot, next_month, call_row, put_row, sigma_call,
              TheoPrices(spot, call_row.strike, put_row.strike, sigma_call))]

\* lines 139-188, the two rows being selected
Banded(trade_date_str, code, spot, next_month, call_row, put_row, asked) ==
    IF OutOfBand(call_row.strike, spot) THEN Skip(asked)
    ELSE IF OutOfBand(put_row.strike, spot) THEN Skip(asked)
    ELSE Priced(trade_date_str, code, spot, next_month, call_row, put_row,
                SigmaCall(call_row), asked)

\* lines 136-137, ci and pi being what argmin gave (0: it raised)
Selected(trade_date_str, code, spot, next_month, df_m, ci, pi, asked) ==
    IF ci = 0 \/ pi = 0 THEN Raised(asked)
    ELSE Banded(trade_date_str, code, spot, next_month,
                iloc(df_m, ci), iloc(df_m, pi), asked)

\* lines 127-137, df_m being the filtered rows
Filtered(trade_date_str, code, spot, next_month, df_m, all_na, asked) ==
    IF df_m = << >> THEN Skip(asked)
    ELSE Selected(trade_date_str, code, spot, next_month, df_m,
                  argmin(df_m, spot, 105, all_na), argmin(df_m, spot, 95, all_na), asked)

\* lines 119-134, the spot being resolved
Resolved(trade_date_str, code, df_code, spot, next_month, all_na, asked) ==
    IF SpotUnusable(spot) THEN Skip(asked)
    ELSE Filtered(trade_date_str, code, spot, next_month,
                  FilterNextMonth(df_code, next_month), all_na, asked)

\* lines 116-117, first being the chain's spot
Fallback(trade_date_str, code, df_code, first, yf_price, all_na) ==
    Resolved(trade_date_str, code, df_code,
             IF SpotUnusable(first) THEN yf_price ELSE first,
             next_month_of(strptime(trade_date_str)), all_na, SpotUnusable(first))

\* One pass of the loop body (lines 103-188) for one code.  yf_price is what
\* get_stock_price_from_yf returns if it is called; all_na is argmin's outcome
\* on distances that are all NaN.
LoopBody(trade_date_str, code, df_code, yf_price, all_na) ==
    IF df_code = << >> THEN Skip(FALSE)
    ELSE Fallback(trade_date_str, code, df_code, ChainSpot(df_code), yf_price, all_na)

\* --------------------------------------------------------------- Run Driver

MaxDays == 3

\* start_date = datetime(2025, 10, 8), a Wednesday
start_date == [y |-> 2025, m |-> 10, d |-> 8]

RECURSIVE AddDays(_, _)
AddDays(t, n) ==
    IF n = 0 THEN t
    ELSE IF t.d < DaysInMonth(t.y, t.m) THEN AddDays([t EXCEPT !.d = t.d + 1], n - 1)
    ELSE IF t.m < 12 THEN AddDays([y |-> t.y, m |-> t.m + 1, d |-> 1], n - 1)
    ELSE AddDays([y |-> t.y + 1, m |-> 1, d |-> 1], n - 1)

\* pd.date_range(start_date, today, freq="B")[i-1]: the i-th weekday from the
\* start (Monday = 0, the start is weekday 2)
BusinessDay(i) == strftime_ymd(AddDays(start_date, (i - 1) + 2 * ((i + 1) \div 5)))

\* to_csv then read_csv of one cell: None and NaN are both written as an empty
\* field, which reads back as NaN
CsvCell(x) == IF x = None THEN NaN ELSE x

CsvRow(rec) ==
    [date        |-> rec.date,
     code        |-> rec.code,
     spot        |-> CsvCell(rec.spot),
     next_month  |-> rec.next_month,
     call_strike |-> CsvCell(rec.call_strike),
     call_price  |-> CsvCell(rec.call_price),
     call_theo   |-> CsvCell(rec.call_theo),
     sigma_call  |-> CsvCell(rec.sigma_call),
     put_strike  |-> CsvCell(rec.put_strike),
     put_price   |-> CsvCell(rec.put_price),
     put_theo    |-> CsvCell(rec.put_theo),
     put_iv      |-> CsvCell(rec.put_iv),
     asset_iv    |-> CsvCell(rec.asset_iv)]

CsvRows(recs) == [i \in 1..Len(recs) |-> CsvRow(recs[i])]

KeyLess(a, b) == a.date < b.date \/ (a.date = b.date /\ a.code < b.code)

RECURSIVE InsertSorted(_, _)
InsertSorted(sorted, row) ==
    IF sorted = << >> THEN << row >>
    ELSE IF KeyLess(row, Head(sorted)) THEN << row >> \o sorted
    ELSE << Head(sorted) >> \o InsertSorted(Tail(sorted), row)

RECURSIVE sort_values(_)
\* df_all.sort_values(["日付", "銘柄"])
sort_values(rows) ==
    IF rows = << >> THEN << >>
    ELSE InsertSorted(sort_values(SubSeq(rows, 1, Len(rows) - 1)), rows[Len(rows)])

\* ------------------------------------------------------------------- inputs

MaxRows == 2

Codes == {TARGET_CODES[i] : i \in 1..Len(TARGET_CODES)}

Row(expiry, strike, q) ==
    [expiry |-> expiry, strike |-> strike, spot |-> Num(10000),
     call_close |-> q[1], call_iv |-> q[2], put_close |-> q[3], asset_iv |-> q[4]]

\* the quotes of a row: call close, call IV, put close, underlying IV
Quoted   == << Num(300), Num(2500), Num(250), Num(3000) >>
Empty    == << NaN, NaN, NaN, NaN >>
Dashes   == << Str, Str, Str, Str >>
Zeros    == << Num(0), Num(0), Num(0), Num(0) >>
Negative == << Num(300), Num(-500), Num(9000), Num(-500) >>
NoPut    == << Num(300), Num(2500), NaN, Num(3000) >>
Quotes   == {Quoted, Empty, Dashes, Zeros, Negative, NoPut}

SpotCells == {Num(10000), Num(0), Num(-100), NaN, Str}

\* what get_stock_price_from_yf can return (lines 29-52): None, or the float of
\* the last close, which is NaN when the close is missing
YfResults == {None, Num(10200), NaN}

SeqsUpTo(P, n) == UNION {[1..k -> P] : k \in 0..n}

\* the first row's underlying close set to spot0
WithSpot(rows, spot0) ==
    IF rows = << >> THEN rows ELSE [rows EXCEPT ![1].spot = spot0]

OnlyFirst(rows) == [c \in Codes |-> IF c = TARGET_CODES[1] THEN rows ELSE << >>]

RowPool ==
    {Row(Num(202511), k, q) : k \in {Num(9000), Num(10000), Num(11000), Num(13000), Str},
                              q \in Quotes}
      \cup {Row(Num(202512), Num(10500), Quoted), Row(Flt(202511), Num(10500), Quoted)}

\* the rows of the chains of several rows
MultiPool ==
    {Row(Num(202511), k, q) : k \in {Num(9000), Num(10000), Num(11000), Str},
                              q \in {Quoted, Negative}}
      \cup {Row(Num(202512), Num(10500), Quoted)}

StrikeLadder(ks) == [i \in 1..Len(ks) |-> Row(Num(202511), Num(ks[i]), Quoted)]

Ladders ==
    {StrikeLadder(<< 9000, 9500, 10000, 10500, 11000 >>),
     StrikeLadder(<< 7000, 13000 >>),
     StrikeLadder(<< 8000, 12000 >>)}

\* one underlying on 2025-10-08, every spot cell
RichInputs ==
    {[date |-> 20251008, df |-> OnlyFirst(WithSpot(rows, s))] :
        rows \in SeqsUpTo(RowPool, 1) \cup SeqsUpTo(MultiPool, MaxRows) \cup Ladders,
        s \in SpotCells}

\* trade dates at month ends and in December, against every expiry near them
DateInputs ==
    {[date |-> d, df |-> OnlyFirst(rows)] :
        d \in {20251008, 20251031, 20251230, 20260130, 20240131},
        rows \in SeqsUpTo({Row(Num(e), Num(10500), Quoted) :
                              e \in {202511, 202512, 202513, 202501, 202601,
                                     202602, 202603, 202402, 202403}}, MaxRows)}

SmallChains ==
    {<< >>,
     << Row(Num(202511), Num(10500), Quoted) >>,
     WithSpot(<< Row(Num(202511), Num(10500), Quoted) >>, NaN),
     WithSpot(<< Row(Num(202511), Num(10500), Quoted) >>, Num(0)),
     StrikeLadder(<< 7000, 13000 >>),
     << Row(Num(202512), Num(10500), Quoted) >>}

\* every watchlist underlying with rows of its own
MultiInputs == {[date |-> 20251008, df |-> f] : f \in [Codes -> SmallChains]}

DayInputs == RichInputs \cup DateInputs \cup MultiInputs

\* no rows for any underlying
NoChain == [c \in Codes |-> << >>]

\* the chains the archive of one day can hold in a run of main
DriverChains ==
    {NoChain,
     [c \in Codes |-> << Row(Num(202511), Num(10500), Quoted) >>],
     [c \in Codes |-> WithSpot(<< Row(Num(202511), Num(10500), Quoted) >>,
                               IF c = TARGET_CODES[1] THEN NaN ELSE Num(10000))]}

PricingInputs ==
    [S : {Num(10000), Num(0), Num(-100), NaN},
     K : {Num(9500), Num(10500), Num(0), Num(-100)},
     T : {Num(30), Num(0), Num(-30)},
     sigma : {Num(2500), Num(30000), Num(0), Num(-2500)},
     market_price : {Num(1), Num(250), Num(600), Num(9000), NaN}]

\* -------------------------------------------------------------------- state

VARIABLES
    caller,          \* who runs process_one_day: "main", a direct call ("test"),
                     \* or "pricing" for the engine alone
    pc,              \* where the program is
    today,           \* the number of business days from start_date to today
    store,           \* OUTPUT_CSV, as read_csv reads it (no file: no rows)
    existing_dates,  \* main: the dates of the store at the start of the run
    missing_days,    \* main: the days still to fetch, in order
    all_records,     \* main: the records of this run
    trade_date_str,  \* process_one_day: the day
    df,              \* process_one_day: the chain, by underlying code
    idx,             \* process_one_day: the position in TARGET_CODES
    records,         \* process_one_day: the records so far
    yf_calls,        \* history: the calls of get_stock_price_from_yf of this day
    raised,          \* history: an exception left process_one_day
    run_log,         \* history: the days of this run, in order, with their results
    pin,             \* the arguments of a Pricing Engine call
    pout             \* its result

vars == << caller, pc, today, store, existing_dates, missing_days, all_records,
           trade_date_str, df, idx, records, yf_calls, raised, run_log, pin, pout >>

mainVars == << today, store, existing_dates, missing_days, all_records, run_log >>
dayVars == << trade_date_str, df, idx, records, yf_calls, raised >>
pricingVars == << pin, pout >>

NoPricing == [S |-> None, K |-> None, T |-> None, sigma |-> None, market_price |-> None]

\* ------------------------------------------------------------------ actions

\* every business day listed, whatever the store holds
MissingDays_All(n, existing) == [i \in 1..n |-> BusinessDay(i)]

\* lines 230-235: the business days up to today whose date is not in the store
MissingDays(n, existing) ==
    SelectSeq([i \in 1..n |-> BusinessDay(i)], LAMBDA d : d \notin existing)

\* lines 215-216 and 225: the dates of the store
DatesOf(rows) == {rows[i].date : i \in 1..Len(rows)}

\* the locals of process_one_day are gone when it has returned to main
Returned ==
    /\ df' = NoChain
    /\ idx' = 1
    /\ records' = << >>
    /\ yf_calls' = {}
    /\ raised' = FALSE

\* main, lines 214-238: read the store, list the missing business days
MainStart ==
    /\ caller = "main" /\ pc = "idle"
    /\ existing_dates' = DatesOf(store)
    /\ missing_days' = MissingDays(today, DatesOf(store))
    /\ all_records' = << >>
    /\ run_log' = << >>
    /\ pc' = "loop"
    /\ UNCHANGED << caller, today, store, dayVars, pricingVars >>

\* fetch_and_process_day, lines 191-210, for the next missing day: a response
\* that is not 200 and any exception before the records are back give [];
\* otherwise process_one_day starts on the day's chain
FetchDay ==
    /\ caller = "main" /\ pc = "loop" /\ missing_days # << >>
    /\ \E outcome \in {"status", "bad_zip", "bad_csv", "ok"} :
          IF outcome = "ok"
          THEN /\ \E chain \in DriverChains : df' = chain
               /\ trade_date_str' = Head(missing_days)
               /\ idx' = 1
               /\ records' = << >>
               /\ yf_calls' = {}
               /\ raised' = FALSE
               /\ pc' = "pod"
               /\ UNCHANGED << missing_days, run_log >>
          ELSE /\ missing_days' = Tail(missing_days)
               /\ run_log' = Append(run_log, [date |-> Head(missing_days), why |-> "fetch",
                                              failed |-> TRUE, recs |-> << >>])
               /\ pc' = "loop"
               /\ UNCHANGED dayVars
    /\ UNCHANGED << caller, today, store, existing_dates, all_records, pricingVars >>

\* the calls of get_stock_price_from_yf after one pass
Asked(code, yf_price, b) ==
    IF b.asked THEN yf_calls \cup {[code |-> code, price |-> yf_price]} ELSE yf_calls

\* an exception of process_one_day that fetch_and_process_day does not catch:
\* it ends main, and nothing of the run is written
PodStepWith_Uncaught(code, yf_price, b) ==
    IF b.out = "raise"
    THEN IF caller = "main"
         THEN /\ Returned
              /\ missing_days' = Tail(missing_days)
              /\ run_log' = Append(run_log, [date |-> trade_date_str, why |-> "exception",
                                             failed |-> TRUE, recs |-> << >>])
              /\ pc' = "idle"
              /\ UNCHANGED all_records
         ELSE /\ raised' = TRUE
              /\ yf_calls' = Asked(code, yf_price, b)
              /\ pc' = "done"
              /\ UNCHANGED << df, idx, records, missing_days, run_log, all_records >>
    ELSE /\ yf_calls' = Asked(code, yf_price, b)
         /\ records' = IF b.out = "rec" THEN Append(records, b.rec) ELSE records
         /\ idx' = idx + 1
         /\ UNCHANGED << df, pc, raised, missing_days, run_log, all_records >>

\* the end of one pass: b is what the loop body gave for code.  An exception
\* leaves process_one_day; under main fetch_and_process_day catches it and
\* returns [] (lines 208-210).
PodStepWith(code, yf_price, b) ==
    IF b.out = "raise"
    THEN IF caller = "main"
         THEN /\ Returned
              /\ missing_days' = Tail(missing_days)
              /\ run_log' = Append(run_log, [date |-> trade_date_str, why |-> "exception",
                                             failed |-> TRUE, recs |-> << >>])
              /\ pc' = "loop"
              /\ UNCHANGED all_records
         ELSE /\ raised' = TRUE
              /\ yf_calls' = Asked(code, yf_price, b)
              /\ pc' = "done"
              /\ UNCHANGED << df, idx, records, missing_days, run_log, all_records >>
    ELSE /\ yf_calls' = Asked(code, yf_price, b)
         /\ records' = IF b.out = "rec" THEN Append(records, b.rec) ELSE records
         /\ idx' = idx + 1
         /\ UNCHANGED << df, pc, raised, missing_days, run_log, all_records >>

\* process_one_day, lines 102-188: one code of the watchlist
PodStep ==
    /\ pc = "pod" /\ idx <= Len(TARGET_CODES)
    /\ \E yf_price \in YfResults, all_na \in {"last", "raise"} :
          PodStepWith(TARGET_CODES[idx], yf_price,
                      LoopBody(trade_date_str, TARGET_CODES[idx], df[TARGET_CODES[idx]],
                               yf_price, all_na))
    /\ UNCHANGED << caller, today, store, existing_dates, trade_date_str, pricingVars >>

\* process_one_day returns its records (line 190); main extends all_records
\* with them when there are any (lines 241-246)
PodReturn ==
    /\ pc = "pod" /\ idx > Len(TARGET_CODES)
    /\ IF caller = "main"
       THEN /\ all_records' = all_records \o records
            /\ missing_days' = Tail(missing_days)
            /\ run_log' = Append(run_log, [date |-> trade_date_str, why |-> "ok",
                                           failed |-> FALSE, recs |-> records])
            /\ pc' = "loop"
            /\ Returned
       ELSE /\ pc' = "done"
            /\ UNCHANGED << all_records, missing_days, run_log,
                            df, idx, records, yf_calls, raised >>
    /\ UNCHANGED << caller, today, store, existing_dates, trade_date_str, pricingVars >>

\* main, lines 248-262: append the new records, sort, write
MainSave ==
    /\ caller = "main" /\ pc = "loop" /\ missing_days = << >>
    /\ store' = IF all_records # << >>
                THEN sort_values(store \o CsvRows(all_records))
                ELSE store
    /\ pc' = "idle"
    /\ UNCHANGED << caller, today, existing_dates, missing_days, all_records,
                    run_log, dayVars, pricingVars >>

\* datetime.today() moves on between runs
Tick ==
    /\ caller = "main" /\ pc = "idle" /\ today < MaxDays
    /\ today' = today + 1
    /\ UNCHANGED << caller, pc, store, existing_dates, missing_days, all_records,
                    run_log, dayVars, pricingVars >>

EvalCall ==
    /\ caller = "pricing" /\ pc = "price"
    /\ pout' = [f |-> "call",
                val |-> bs_call_price(pin.S, pin.K, pin.T, Num(R_rate), pin.sigma)]
    /\ pc' = "priced"
    /\ UNCHANGED << caller, mainVars, dayVars, pin >>

EvalPut ==
    /\ caller = "pricing" /\ pc = "price"
    /\ pout' = [f |-> "put",
                val |-> bs_put_price(pin.S, pin.K, pin.T, Num(R_rate), pin.sigma)]
    /\ pc' = "priced"
    /\ UNCHANGED << caller, mainVars, dayVars, pin >>

EvalIv ==
    /\ caller = "pricing" /\ pc = "price"
    /\ pout' = [f |-> "iv",
                val |-> implied_vol_put(pin.S, pin.K, pin.T, Num(R_rate), pin.market_price)]
    /\ pc' = "priced"
    /\ UNCHANGED << caller, mainVars, dayVars, pin >>

\* ------------------------------------------------------------ specifications

InitCommon ==
    /\ today = 1
    /\ store = << >>
    /\ existing_dates = {}
    /\ missing_days = << >>
    /\ all_records = << >>
    /\ run_log = << >>
    /\ idx = 1
    /\ records = << >>
    /\ yf_calls = {}
    /\ raised = FALSE
    /\ pout = [f |-> "none", val |-> None]

\* the runs of main, from no store
Init ==
    /\ InitCommon
    /\ caller = "main" /\ pc = "idle"
    /\ trade_date_str = BusinessDay(1)
    /\ df = NoChain
    /\ pin = NoPricing

Next == MainStart \/ FetchDay \/ PodStep \/ PodReturn \/ MainSave \/ Tick

Spec == Init /\ [][Next]_vars

\* process_one_day on one chain and one date
InitDay ==
    /\ InitCommon
    /\ caller = "test" /\ pc = "pod"
    /\ \E inp \in DayInputs : trade_date_str = inp.date /\ df = inp.df
    /\ pin = NoPricing

NextDay == PodStep \/ PodReturn

SpecDay == InitDay /\ [][NextDay]_vars

\* the Pricing Engine on its own
InitPricing ==
    /\ InitCommon
    /\ caller = "pricing" /\ pc = "price"
    /\ trade_date_str = BusinessDay(1)
    /\ df = NoChain
    /\ pin \in PricingInputs

NextPricing == EvalCall \/ EvalPut \/ EvalIv

SpecPricing == InitPricing /\ [][NextPricing]_vars

\* ------------------------------------------------------------------- claims

RecSet == {records[i] : i \in 1..Len(records)}
RecsOf(code) == {rec \in RecSet : rec.code = code}
\* the positions of the watchlist whose pass is complete
Passed == {i \in 1..Len(TARGET_CODES) : i < idx}
YfCallsOf(code) == {call \in yf_calls : call.code = code}
Absent(x) == x = None \/ x = NaN
UsableOrAbsent(x) == Absent(x) \/ Gt0(x)

\* the rows a record's two contracts can have come from
IsCallRow(rec, row) ==
    /\ rec.call_strike = row.strike
    /\ rec.call_price = row.call_close
    /\ rec.asset_iv = row.asset_iv
IsPutRow(rec, row) ==
    /\ rec.put_strike = row.strike
    /\ rec.put_price = row.put_close

\* C1: a failure while processing one underlying skips that underlying only:
\* process_one_day returns, an underlying with no positive spot from either
\* source has no record, and every underlying whose own processing succeeds
\* has its record.
C1_FailureIsolation ==
    pc = "done" =>
      /\ ~raised
      /\ \A c \in Codes :
           (df[c] # << >> /\ ~Gt0(df[c][1].spot)
              /\ ~(\E call \in YfCallsOf(c) : Gt0(call.price)))
             => RecsOf(c) = {}
      /\ \A c \in Codes :
           (df[c] # << >> /\ Gt0(df[c][1].spot)
              /\ LoopBody(trade_date_str, c, df[c], None, "last").out = "rec")
             => LoopBody(trade_date_str, c, df[c], None, "last").rec \in RecSet

\* C2: the store holds at most one record per (date, underlying), and no day
\* that has a record in the store is fetched or processed again.
C2_StoreUnique ==
    /\ \A i, j \in 1..Len(store) :
          (store[i].date = store[j].date /\ store[i].code = store[j].code) => i = j
    /\ pc \in {"loop", "pod"} =>
          \A k \in 1..Len(missing_days) : missing_days[k] \notin DatesOf(store)
    /\ pc = "pod" => trade_date_str \notin DatesOf(store)

\* a later run (the store already holds an earlier run's records) is
\* processing a day, and the store holds records of two runs
C2_Witness ==
    /\ caller = "main" /\ pc = "pod"
    /\ Len(store) >= 2
    /\ \E i, j \in 1..Len(store) : store[i].date # store[j].date

\* C3: the spot is the chain's underlying close when that is a positive
\* number; in every other case get_stock_price_from_yf is asked, and its
\* price is the spot; every record carries a positive spot.
C3_SpotResolution ==
    /\ \A rec \in RecSet : Gt0(rec.spot)
    /\ \A i \in Passed :
          LET c == TARGET_CODES[i]
          IN  df[c] # << >> =>
                IF Gt0(df[c][1].spot)
                THEN /\ YfCallsOf(c) = {}
                     /\ \A rec \in RecsOf(c) : rec.spot = df[c][1].spot
                ELSE /\ YfCallsOf(c) # {}
                     /\ \A rec \in RecsOf(c) :
                           \E call \in YfCallsOf(c) : rec.spot = call.price

\* the chain's underlying close is empty (NaN): the price source is not asked
\* and the record carries NaN as its spot
NaNSpotRecord ==
    \E rec \in RecSet :
       /\ df[rec.code][1].spot = NaN
       /\ YfCallsOf(rec.code) = {}
       /\ rec.spot = NaN

\* the chain's underlying close is empty (NaN) and argmin raises on the
\* distances, all NaN: process_one_day is left by the exception
NaNSpotRaise ==
    /\ pc = "done" /\ raised
    /\ df[TARGET_CODES[idx]] # << >>
    /\ df[TARGET_CODES[idx]][1].spot = NaN
    /\ YfCallsOf(TARGET_CODES[idx]) = {}

\* a record with a NaN spot whose strikes are not those of the first row at
\* the expiry: iloc[-1] took the last row
NaNSpotLastRow ==
    \E rec \in RecSet :
       /\ rec.spot = NaN
       /\ Len(df[rec.code]) = 2
       /\ df[rec.code][1].expiry = Num(rec.next_month)
       /\ IsNum(df[rec.code][1].strike)
       /\ rec.call_strike # df[rec.code][1].strike

\* the records with a numeric spot have a positive spot and both strikes
\* within 20% of it
NumericSpotInBand ==
    \A rec \in RecSet :
       IsNum(rec.spot) =>
         /\ rec.spot.v > 0
         /\ Abs(rec.call_strike.v - rec.spot.v) * 100 <= 20 * rec.spot.v
         /\ Abs(rec.put_strike.v - rec.spot.v) * 100 <= 20 * rec.spot.v

\* the call IV of a record is None, NaN or a positive number
SigmaCallNotNonPositive == \A rec \in RecSet : UsableOrAbsent(rec.sigma_call)

\* a record whose underlying IV is zero, negative or text
RawAssetIvRecord ==
    \E rec \in RecSet : ~UsableOrAbsent(rec.asset_iv) /\ IsNum(rec.spot)

\* a record whose call IV is NaN and was priced with: both theoretical
\* prices are NaN
NaNSigmaPriced ==
    \E rec \in RecSet :
       /\ rec.sigma_call = NaN /\ IsNum(rec.spot)
       /\ rec.call_theo = NaN /\ rec.put_theo = NaN

\* row j of df_m is closer to spot*pct/100 than row i: no row is closer than
\* another when the spot is not a number
Closer(df_m, spot, pct, j, i) ==
    /\ IsNum(spot)
    /\ Distance(df_m[j].strike.v, spot.v, pct) < Distance(df_m[i].strike.v, spot.v, pct)

Nearest(df_m, spot, pct, i) == \A j \in 1..Len(df_m) : ~Closer(df_m, spot, pct, j, i)

\* row i is the first of the nearest rows
FirstNearest(df_m, spot, pct, i) ==
    /\ Nearest(df_m, spot, pct, i)
    /\ \A j \in 1..(i - 1) : ~Nearest(df_m, spot, pct, j)

\* the rows at the expiry of a record with a numeric strike
RowsAtExpiry(rec) ==
    FilterNextMonth(df[rec.code], [digits |-> rec.next_month, tail |-> ""])

NearestRows(rec) ==
    /\ \E i \in 1..Len(RowsAtExpiry(rec)) :
          /\ FirstNearest(RowsAtExpiry(rec), rec.spot, 105, i)
          /\ IsCallRow(rec, RowsAtExpiry(rec)[i])
    /\ \E i \in 1..Len(RowsAtExpiry(rec)) :
          /\ FirstNearest(RowsAtExpiry(rec), rec.spot, 95, i)
          /\ IsPutRow(rec, RowsAtExpiry(rec)[i])

\* C4: in every record the call contract is the first of the rows at the
\* target expiry (with a numeric strike) nearest to spot*1.05 and the put
\* contract the first of those nearest to spot*0.95.
C4_NearestStrike == \A rec \in RecSet : NearestRows(rec)

\* the records with a numeric spot have the first nearest rows
NumericSpotNearest == \A rec \in RecSet : IsNum(rec.spot) => NearestRows(rec)

\* strikes [90, 95, 100, 105, 110] with spot 100 gave 105 and 95; and a tie
\* between two rows was decided
LadderSelected ==
    /\ \E rec \in RecSet :
          /\ rec.spot = Num(10000)
          /\ Len(df[rec.code]) = 5
          /\ rec.call_strike = Num(10500) /\ rec.put_strike = Num(9500)

TieSelected ==
    \E rec \in RecSet :
       /\ rec.spot = Num(10000)
       /\ \E i, j \in 1..Len(df[rec.code]) :
             /\ i < j
             /\ df[rec.code][i].strike = Num(9000) /\ df[rec.code][j].strike = Num(10000)
             /\ df[rec.code][i].expiry = Num(202511) /\ df[rec.code][j].expiry = Num(202511)
       /\ rec.put_strike = Num(9000)

\* C5: in every record both strikes are within 20% of the spot.
C5_SanityBand ==
    \A rec \in RecSet :
       /\ IsNum(rec.spot)
       /\ Abs(rec.call_strike.v - rec.spot.v) * 100 <= 20 * rec.spot.v
       /\ Abs(rec.put_strike.v - rec.spot.v) * 100 <= 20 * rec.spot.v

\* the year-month one calendar month after the date yyyymmdd
YearMonthAfter(date) ==
    IF (date \div 100) % 100 = 12
    THEN ((date \div 10000) + 1) * 100 + 1
    ELSE (date \div 100) + 1

AtTarget(row, ym) == row.expiry = Num(ym) /\ IsNum(row.strike)

\* C6: the target expiry is the year-month of the trade date moved on by one
\* calendar month; both contracts of a record are rows of that expiry with a
\* numeric strike; an underlying with no such row has no record.
C6_NextMonthExpiry ==
    /\ \A rec \in RecSet :
          /\ rec.next_month = YearMonthAfter(rec.date)
          /\ \E i \in 1..Len(df[rec.code]) :
                AtTarget(df[rec.code][i], YearMonthAfter(rec.date))
                  /\ IsCallRow(rec, df[rec.code][i])
          /\ \E i \in 1..Len(df[rec.code]) :
                AtTarget(df[rec.code][i], YearMonthAfter(rec.date))
                  /\ IsPutRow(rec, df[rec.code][i])
    /\ \A c \in Codes :
          (\A i \in 1..Len(df[c]) : ~AtTarget(df[c][i], YearMonthAfter(trade_date_str)))
             => RecsOf(c) = {}

\* a record of a December day, whose expiry is January of the next year
C6_Witness ==
    \E rec \in RecSet : rec.date = 20251230 /\ rec.next_month = 202601

\* a record of 2026-01-30, whose expiry is February
C6_MonthEndWitness ==
    \E rec \in RecSet : rec.date = 20260130 /\ rec.next_month = 202602

\* the put close of a record as float() reads it, None when it cannot
PutPriceOf(rec) == ExceptNone(FloatOf(rec.put_price))

C7_TheoWitness ==
    \E rec \in RecSet :
       /\ IsNum(rec.call_theo) /\ IsNum(rec.put_theo)
       /\ ~Gt0(PutPriceOf(rec)) /\ rec.put_iv = None

NonPositiveArg == Le0(pin.S) \/ Le0(pin.K) \/ Le0(pin.T) \/ Le0(pin.sigma)

\* the put values at the two ends of the bracket do not enclose market_price,
\* or bs_put_price has no result
ResidualAt(sigma) ==
    PutFormula(pin.S, pin.K, pin.T, Num(0), Num(sigma)).v - pin.market_price.v

NoBracket ==
    \/ Le0(pin.S) \/ Le0(pin.K) \/ Le0(pin.T)
    \/ /\ IsNum(pin.S) /\ IsNum(pin.market_price)
       /\ ResidualAt(1) * ResidualAt(30000) > 0

\* C8: no call of the Pricing Engine raises; bs_call_price and bs_put_price
\* give None when any of S, K, T, sigma is not positive, and implied_vol_put
\* gives None when the bracket [0.0001, 3.0] encloses no root or bs_put_price
\* has no result.
C8_NeverRaises ==
    pc = "priced" =>
      /\ pout.val # Raise
      /\ (pout.f \in {"call", "put"} /\ NonPositiveArg) => pout.val = None
      /\ (pout.f = "iv" /\ NoBracket) => pout.val = None

\* implied_vol_put on valid S, K, T with a market price above the put value at
\* sigma = 3.0
C8_Witness ==
    /\ pc = "priced" /\ pout.f = "iv"
    /\ Gt0(pin.S) /\ Gt0(pin.K) /\ Gt0(pin.T)
    /\ IsNum(pin.S) /\ IsNum(pin.market_price)
    /\ pin.market_price.v > PutFormula(pin.S, pin.K, pin.T, Num(0), Num(30000)).v
    /\ pout.val = None

\* bs_put_price with sigma = 0 alone not positive
C8_BoundaryWitness ==
    /\ pc = "priced" /\ pout.f = "put"
    /\ Gt0(pin.S) /\ Gt0(pin.K) /\ Gt0(pin.T) /\ pin.sigma = Num(0)
    /\ pout.val = None

\* C9: in every record the call IV and the underlying IV are absent or a
\* positive number, and a call IV that is not usable is not priced with.
C9_VolatilityUsable ==
    \A rec \in RecSet :
       /\ UsableOrAbsent(rec.sigma_call)
       /\ UsableOrAbsent(rec.asset_iv)
       /\ ~Gt0(rec.sigma_call) => rec.call_theo = None /\ rec.put_theo = None

LogDates == [i \in 1..Len(run_log) |-> run_log[i].date]

RECURSIVE LogRecords(_)
\* the records of the days of a log, in order
LogRecords(log) ==
    IF log = << >> THEN << >> ELSE Head(log).recs \o LogRecords(Tail(log))

StoreRows == {store[i] : i \in 1..Len(store)}

\* C10: a day whose fetch or processing fails contributes no records and the
\* run goes on: the days of the run are the missing days in order, the records
\* of the run are those of its days that did not fail, they are in the store
\* when the run has ended, and a failed day has no record in the store (so it
\* is missing again at the next run).
C10_DayContainment ==
    caller = "main" =>
      /\ \A i \in 1..Len(run_log) : run_log[i].failed => run_log[i].recs = << >>
      /\ all_records = LogRecords(run_log)
      /\ pc \in {"loop", "pod"} =>
            /\ LogDates \o missing_days = MissingDays(today, DatesOf(store))
            /\ existing_dates = DatesOf(store)
      /\ pc = "pod" => trade_date_str = Head(missing_days)
      /\ pc = "idle" =>
            \A i \in 1..Len(run_log) :
               /\ run_log[i].failed => run_log[i].date \notin DatesOf(store)
               /\ \A k \in 1..Len(run_log[i].recs) :
                     CsvRow(run_log[i].recs[k]) \in StoreRows

\* a run has ended in which a day failed with an exception of process_one_day
\* and a later day's records were written
C10_Witness ==
    /\ caller = "main" /\ pc = "idle"
    /\ \E i, j \in 1..Len(run_log) :
          /\ i < j
          /\ run_log[i].failed /\ run_log[i].why = "exception"
          /\ run_log[j].recs # << >>
          /\ CsvRow(run_log[j].recs[1]) \in StoreRows

\* a failed day is missing again at the start of the next run
C10_RetryWitness ==
    /\ caller = "main" /\ pc = "loop" /\ run_log = << >>
    /\ store # << >>
    /\ \E k \in 1..Len(missing_days) : missing_days[k] < store[Len(store)].date

====
